---- MODULE Spec2Model ----
(***************************************************************************)
(* Todo MCP server: the FastAPI application of src/main.py (in-memory      *)
(* store, asyncio handlers) and the Flask application of src/src/app.py    *)
(* with src/src/todo_service.py (SQLAlchemy store, threaded handlers).     *)
(* One of the two applications runs in a behaviour; `server` says which.   *)
(*                                                                         *)
(* Python values are tagged records so that None, strings, booleans and    *)
(* integers can be told apart.  A string that the code strips is a         *)
(* sequence of one-character strings; a string that the code only compares *)
(* (a method, a tool name, a priority, a uri) is a TLA+ string.  A dict is *)
(* a record holding exactly the keys that are present.                     *)
(* Timestamps (created_at, updated_at) are not part of this model.         *)
(***************************************************************************)
EXTENDS Integers, Sequences, FiniteSets, TLC

\* ------------------------------------------------------------------ bounds
\* Creates are accepted while fewer than MaxTodos ids have been issued.
MaxTodos == 2
\* Number of request handlers that may be in flight at once in SpecConc.
MaxConc == 2
\* The clock is read up to MaxClock ticks after the start
MaxClock == 2

\* ----------------------------------------------------------- Python values
PyNone == [ty |-> "NoneType"]
PyStr(s) == [ty |-> "str", s |-> s]
PyBool(b) == [ty |-> "bool", b |-> b]
PyInt(n) == [ty |-> "int", n |-> n]

EmptyDict == [k \in {} |-> PyNone]
IsDict(x) == "ty" \notin DOMAIN x

\* d.get(k, default)
dict_get(d, k, default) == IF k \in DOMAIN d THEN d[k] ELSE default

\* Python truth value of a None, str or bool
Truthy(v) ==
  CASE v.ty = "NoneType" -> FALSE
    [] v.ty = "str" -> v.s # <<>>
    [] v.ty = "bool" -> v.b
    [] v.ty = "int" -> v.n # 0

Whitespace == {" "}

RECURSIVE lstrip(_)
lstrip(s) == IF s # <<>> /\ Head(s) \in Whitespace THEN lstrip(Tail(s)) ELSE s

RECURSIVE rstrip(_)
rstrip(s) ==
  IF s # <<>> /\ s[Len(s)] \in Whitespace THEN rstrip(SubSeq(s, 1, Len(s) - 1)) ELSE s

\* str.strip() on the characters of a string
strip(s) == rstrip(lstrip(s))

Priorities == {PyStr("low"), PyStr("medium"), PyStr("high")}

\* ------------------------------------------------------------------- state
VARIABLES
  server,          \* "fastapi" (src/main.py) or "flask" (src/src/app.py)
  todos_storage,   \* main.py: id -> Todo
  next_id,         \* main.py: the id the next create assigns
  todos,           \* Flask: the rows of table todos, id -> row
  pc,              \* per handler: "idle", "recv", "loaded", "done"
  req,             \* per handler: the request being handled
  resp,            \* per handler: the response produced
  sess,            \* per handler (Flask): the row loaded into its session
  createdIds,      \* history: the ids returned by the successful creates, in order
  clock            \* the wall clock, in ticks since the start

vars == <<server, todos_storage, next_id, todos, pc, req, resp, sess, createdIds, clock>>

Handlers == 1 .. MaxConc

NoReq == [api |-> "none"]
NoRow == [found |-> FALSE]

\* ------------------------------------------------- src/main.py: MCPServer
\* The keys of MCPServer.tools after initialize_tools
ToolNames == {"create_todo", "list_todos", "update_todo", "delete_todo", "mark_todo_complete"}

\* The uri of the one resource of initialize_resources
TodosUri == "mcp://server/todos"

\* What a handler hands back: a returned value (exc = "") or a raised exception,
\* with the store and the counter as the handler leaves them.
Return(text, data, storage, nid) ==
  [exc |-> "", text |-> text, data |-> data, storage |-> storage, nid |-> nid]

Raise(exc, text, storage, nid) ==
  [exc |-> exc, text |-> text, data |-> PyNone, storage |-> storage, nid |-> nid]

\* Todo(...): pydantic checks the declared field types when the model is built
\* (title: str, description: Optional[str], priority: str).
TodoFieldsValid(title, description, priority) ==
  /\ title.ty = "str"
  /\ description.ty \in {"str", "NoneType"}
  /\ priority.ty = "str"

\* get_current_time(): datetime.now()
get_current_time == clock

\* Both constructions of a Todo pass created_at=get_current_time(); the class
\* has no updated_at.
Todo(id, title, description, priority, completed) ==
  [id |-> id, title |-> title, description |-> description,
   priority |-> priority, completed |-> completed,
   created_at |-> get_current_time]

\* Todo(id=next_id, ...): the id a create gives its todo
AllocateId(storage, nid) == nid

\* A create that leaves the counter where it was
NextIdAfterCreate_kept(nid) == nid

\* next_id += 1
NextIdAfterCreate(nid) == nid + 1

\* todo_id in todos_storage, for the int or None that arguments.get("todo_id") gives
InStorage(todo_id, storage) == todo_id.ty = "int" /\ todo_id.n \in DOMAIN storage

\* list(todos_storage.values()): the dict keeps insertion order, and keys are
\* inserted in increasing id order and never re-inserted.
RECURSIVE ValuesFrom(_, _)
ValuesFrom(storage, ids) ==
  IF ids = {} THEN <<>>
  ELSE LET m == CHOOSE i \in ids : \A j \in ids : i <= j
       IN <<storage[m]>> \o ValuesFrom(storage, ids \ {m})

storage_values(storage) == ValuesFrom(storage, DOMAIN storage)

RECURSIVE FilterCompleted(_, _)
FilterCompleted(seq, flag) ==
  IF seq = <<>> THEN <<>>
  ELSE (IF Head(seq).completed = flag THEN <<Head(seq)>> ELSE <<>>)
         \o FilterCompleted(Tail(seq), flag)

\* A create that takes its id from the counter before it looks at the title
mcp_create_todo_counting(arguments, storage, nid) ==
  LET title == dict_get(arguments, "title", PyNone)
      description == dict_get(arguments, "description", PyStr(<<>>))
      priority == dict_get(arguments, "priority", PyStr("medium"))
      id == AllocateId(storage, nid)
  IN IF ~Truthy(title) THEN Return("title_required", PyNone, storage, NextIdAfterCreate(nid))
     ELSE IF ~TodoFieldsValid(title, description, priority)
     THEN Raise("ValidationError", "validation", storage, NextIdAfterCreate(nid))
     ELSE LET todo == Todo(id, title, description, priority, PyBool(FALSE))
          IN Return("created", todo, (id :> todo) @@ storage, NextIdAfterCreate(nid))

\* A create that has taken its id from the counter when the Todo is rejected
mcp_create_todo_reserving(arguments, storage, nid) ==
  LET title == dict_get(arguments, "title", PyNone)
      description == dict_get(arguments, "description", PyStr(<<>>))
      priority == dict_get(arguments, "priority", PyStr("medium"))
  IN IF ~Truthy(title) THEN Return("title_required", PyNone, storage, nid)
     ELSE IF ~TodoFieldsValid(title, description, priority)
     THEN Raise("ValidationError", "validation", storage, NextIdAfterCreate(nid))
     ELSE LET id == AllocateId(storage, nid)
              todo == Todo(id, title, description, priority, PyBool(FALSE))
          IN Return("created", todo, (id :> todo) @@ storage, NextIdAfterCreate(nid))

\* handle_tools_call, create_todo branch
mcp_create_todo(arguments, storage, nid) ==
  LET title == dict_get(arguments, "title", PyNone)
      description == dict_get(arguments, "description", PyStr(<<>>))
      priority == dict_get(arguments, "priority", PyStr("medium"))
  IN IF ~Truthy(title) THEN Return("title_required", PyNone, storage, nid)
     ELSE IF ~TodoFieldsValid(title, description, priority)
     THEN Raise("ValidationError", "validation", storage, nid)
     ELSE LET id == AllocateId(storage, nid)
              todo == Todo(id, title, description, priority, PyBool(FALSE))
          IN Return("created", todo, (id :> todo) @@ storage, NextIdAfterCreate(nid))

\* A list that keeps in the store only the todos its filter lets through
mcp_list_todos_pruning(arguments, storage, nid) ==
  LET filter_completed == dict_get(arguments, "filter_completed", PyNone)
      all == storage_values(storage)
      kept == {i \in DOMAIN storage :
                 filter_completed = PyNone \/ storage[i].completed = filter_completed}
  IN Return("listed",
            IF filter_completed # PyNone THEN FilterCompleted(all, filter_completed) ELSE all,
            [i \in kept |-> storage[i]], nid)

\* handle_tools_call, list_todos branch
mcp_list_todos(arguments, storage, nid) ==
  LET filter_completed == dict_get(arguments, "filter_completed", PyNone)
      all == storage_values(storage)
  IN Return("listed",
            IF filter_completed # PyNone THEN FilterCompleted(all, filter_completed) ELSE all,
            storage, nid)

\* The four "if key in arguments: todo.field = arguments[key]" assignments
mcp_assign_fields(todo, arguments) ==
  [todo EXCEPT
     !.title = IF "title" \in DOMAIN arguments THEN arguments.title ELSE @,
     !.description = IF "description" \in DOMAIN arguments THEN arguments.description ELSE @,
     !.priority = IF "priority" \in DOMAIN arguments THEN arguments.priority ELSE @,
     !.completed = IF "completed" \in DOMAIN arguments THEN arguments.completed ELSE @]

\* handle_tools_call, update_todo branch
mcp_update_todo(arguments, storage, nid) ==
  LET todo_id == dict_get(arguments, "todo_id", PyNone)
  IN IF ~InStorage(todo_id, storage) THEN Return("not_found", PyNone, storage, nid)
     ELSE LET todo == mcp_assign_fields(storage[todo_id.n], arguments)
          IN Return("updated", todo, [storage EXCEPT ![todo_id.n] = todo], nid)

\* todos_storage.pop(todo_id)
storage_pop(storage, id) == [i \in DOMAIN storage \ {id} |-> storage[i]]

\* A delete that pops with a default and reports success whatever it found
mcp_delete_todo_unchecked(arguments, storage, nid) ==
  LET todo_id == dict_get(arguments, "todo_id", PyNone)
  IN IF ~InStorage(todo_id, storage) THEN Return("deleted", PyNone, storage, nid)
     ELSE Return("deleted", storage[todo_id.n], storage_pop(storage, todo_id.n), nid)

\* A delete that hands the counter back for reuse
mcp_delete_todo_rewinding(arguments, storage, nid) ==
  LET todo_id == dict_get(arguments, "todo_id", PyNone)
  IN IF ~InStorage(todo_id, storage) THEN Return("not_found", PyNone, storage, nid)
     ELSE Return("deleted", storage[todo_id.n], storage_pop(storage, todo_id.n), nid - 1)

\* handle_tools_call, delete_todo branch
mcp_delete_todo(arguments, storage, nid) ==
  LET todo_id == dict_get(arguments, "todo_id", PyNone)
  IN IF ~InStorage(todo_id, storage) THEN Return("not_found", PyNone, storage, nid)
     ELSE Return("deleted", storage[todo_id.n], storage_pop(storage, todo_id.n), nid)

\* A mark_todo_complete whose default is the opposite of the present value
mcp_mark_todo_complete_toggling(arguments, storage, nid) ==
  LET todo_id == dict_get(arguments, "todo_id", PyNone)
  IN IF ~InStorage(todo_id, storage) THEN Return("not_found", PyNone, storage, nid)
     ELSE LET old == storage[todo_id.n]
              todo == [old EXCEPT
                         !.completed = dict_get(arguments, "completed",
                                                PyBool(~Truthy(old.completed)))]
          IN Return("completed", todo, [storage EXCEPT ![todo_id.n] = todo], nid)

\* handle_tools_call, mark_todo_complete branch
mcp_mark_todo_complete(arguments, storage, nid) ==
  LET todo_id == dict_get(arguments, "todo_id", PyNone)
  IN IF ~InStorage(todo_id, storage) THEN Return("not_found", PyNone, storage, nid)
     ELSE LET todo == [storage[todo_id.n] EXCEPT
                         !.completed = dict_get(arguments, "completed", PyBool(TRUE))]
          IN Return("completed", todo, [storage EXCEPT ![todo_id.n] = todo], nid)

\* A tools/list that leaves out the last descriptor
handle_tools_list_short == ToolNames \ {"mark_todo_complete"}

\* MCPServer.handle_tools_list: the names of list(self.tools.values())
handle_tools_list == ToolNames

\* A check that only asks for a name, not for a tool of that name
ToolMissing_unnamed(tool_name) == tool_name.ty # "str"

\* tool_name not in self.tools
ToolMissing(tool_name) == ~(tool_name.ty = "str" /\ tool_name.s \in ToolNames)

\* A dispatch with no branch for delete_todo
handle_tools_call_without_delete(params, storage, nid) ==
  IF ~IsDict(params) THEN Raise("AttributeError", "no_get", storage, nid)
  ELSE LET tool_name == dict_get(params, "name", PyNone)
           arguments == dict_get(params, "arguments", EmptyDict)
       IN IF ToolMissing(tool_name) THEN Raise("HTTPException", "tool_not_found", storage, nid)
          ELSE IF ~IsDict(arguments) THEN Raise("AttributeError", "no_get", storage, nid)
          ELSE CASE tool_name.s = "create_todo" -> mcp_create_todo(arguments, storage, nid)
                 [] tool_name.s = "list_todos" -> mcp_list_todos(arguments, storage, nid)
                 [] tool_name.s = "update_todo" -> mcp_update_todo(arguments, storage, nid)
                 [] tool_name.s = "mark_todo_complete" ->
                      mcp_mark_todo_complete(arguments, storage, nid)
                 [] OTHER -> Return("executed", PyNone, storage, nid)

\* MCPServer.handle_tools_call
handle_tools_call(params, storage, nid) ==
  IF ~IsDict(params) THEN Raise("AttributeError", "no_get", storage, nid)
  ELSE LET tool_name == dict_get(params, "name", PyNone)
           arguments == dict_get(params, "arguments", EmptyDict)
       IN IF ToolMissing(tool_name) THEN Raise("HTTPException", "tool_not_found", storage, nid)
          ELSE IF ~IsDict(arguments) THEN Raise("AttributeError", "no_get", storage, nid)
          ELSE CASE tool_name.s = "create_todo" -> mcp_create_todo(arguments, storage, nid)
                 [] tool_name.s = "list_todos" -> mcp_list_todos(arguments, storage, nid)
                 [] tool_name.s = "update_todo" -> mcp_update_todo(arguments, storage, nid)
                 [] tool_name.s = "delete_todo" -> mcp_delete_todo(arguments, storage, nid)
                 [] tool_name.s = "mark_todo_complete" ->
                      mcp_mark_todo_complete(arguments, storage, nid)
                 [] OTHER -> Return("executed", PyNone, storage, nid)

\* A read that answers with the contents whatever uri it is given
handle_resources_read_any(params, storage, nid) ==
  IF ~IsDict(params) THEN Raise("AttributeError", "no_get", storage, nid)
  ELSE Return("contents", storage_values(storage), storage, nid)

\* MCPServer.handle_resources_read
handle_resources_read(params, storage, nid) ==
  IF ~IsDict(params) THEN Raise("AttributeError", "no_get", storage, nid)
  ELSE LET uri == dict_get(params, "uri", PyNone)
       IN IF uri = PyStr(TodosUri)
          THEN Return("contents", storage_values(storage), storage, nid)
          ELSE Raise("HTTPException", "resource_not_found", storage, nid)


\* ---------------------------------------------------------------- responses
\* A response as the client sees it.  kind: "result" or "error" (a JSON-RPC
\* envelope), "rest" (a REST body), "none" (no JSON-RPC envelope: an empty body,
\* or the framework's 500 page after an exception left the handler).
Response(kind, http, has_id, id, code, text, exc, data) ==
  [kind |-> kind, http |-> http, has_id |-> has_id, id |-> id, code |-> code,
   text |-> text, exc |-> exc, data |-> data]

RpcResult(id, text, data) == Response("result", 200, TRUE, id, 0, text, "", data)
RpcError(http, has_id, id, code, text, exc) ==
  Response("error", http, has_id, id, code, text, exc, PyNone)
Escaped(exc) == Response("none", 500, FALSE, PyNone, 0, "unhandled", exc, PyNone)
NoResp == Response("unset", 0, FALSE, PyNone, 0, "", "", PyNone)
RestResponse(http, text, exc, data) == Response("rest", http, FALSE, PyNone, 0, text, exc, data)

\* What an endpoint does: the response, and the store and counter it leaves
Outcome(response, storage, nid) == [resp |-> response, storage |-> storage, nid |-> nid]

\* A request body: text that is not JSON, or a JSON value (a dict, or a list)
Unparseable == [kind |-> "unparseable"]
Json(value) == [kind |-> "json", value |-> value]
PyList(items) == [ty |-> "list", items |-> items]

\* ----------------------------------------- src/main.py: mcp_stream_endpoint
\* The except clause: the id is message.get("id") if message was bound.  A
\* message that is not a dict has no get: the AttributeError leaves the handler.
mcp_stream_except(body, exc, text) ==
  IF body.kind = "unparseable" THEN RpcError(200, TRUE, PyNone, -32603, text, exc)
  ELSE IF ~IsDict(body.value) THEN Escaped("AttributeError")
  ELSE RpcError(200, TRUE, dict_get(body.value, "id", PyNone), -32603, text, exc)

\* An else branch that answers with a result
mcp_method_not_found_as_result(msg_id) == RpcResult(msg_id, "method_not_found", PyNone)

\* The else branch of the dispatch: the method is none of the five
mcp_method_not_found(msg_id) == RpcError(200, TRUE, msg_id, -32601, "method_not_found", "")

\* A dispatch whose initialize starts the session on an empty store
mcp_stream_dispatch_resetting(body, storage, nid) ==
  LET message == body.value
      method == dict_get(message, "method", PyNone)
      params == dict_get(message, "params", EmptyDict)
      msg_id == dict_get(message, "id", PyNone)
      wrap(out) == IF out.exc = ""
                   THEN Outcome(RpcResult(msg_id, out.text, out.data), out.storage, out.nid)
                   ELSE Outcome(mcp_stream_except(body, out.exc, out.text), out.storage, out.nid)
  IN CASE method = PyStr("initialize") ->
            Outcome(RpcResult(msg_id, "initialized", PyNone), EmptyDict, nid)
       [] method = PyStr("tools/list") ->
            Outcome(RpcResult(msg_id, "tools", handle_tools_list), storage, nid)
       [] method = PyStr("tools/call") -> wrap(handle_tools_call(params, storage, nid))
       [] method = PyStr("resources/list") ->
            Outcome(RpcResult(msg_id, "resources", {TodosUri}), storage, nid)
       [] method = PyStr("resources/read") -> wrap(handle_resources_read(params, storage, nid))
       [] OTHER -> Outcome(mcp_method_not_found(msg_id), storage, nid)

\* The dispatch on method, for a message that is a dict
mcp_stream_dispatch(body, storage, nid) ==
  LET message == body.value
      method == dict_get(message, "method", PyNone)
      params == dict_get(message, "params", EmptyDict)
      msg_id == dict_get(message, "id", PyNone)
      wrap(out) == IF out.exc = ""
                   THEN Outcome(RpcResult(msg_id, out.text, out.data), out.storage, out.nid)
                   ELSE Outcome(mcp_stream_except(body, out.exc, out.text), out.storage, out.nid)
  IN CASE method = PyStr("initialize") ->
            Outcome(RpcResult(msg_id, "initialized", PyNone), storage, nid)
       [] method = PyStr("tools/list") ->
            Outcome(RpcResult(msg_id, "tools", handle_tools_list), storage, nid)
       [] method = PyStr("tools/call") -> wrap(handle_tools_call(params, storage, nid))
       [] method = PyStr("resources/list") ->
            Outcome(RpcResult(msg_id, "resources", {TodosUri}), storage, nid)
       [] method = PyStr("resources/read") -> wrap(handle_resources_read(params, storage, nid))
       [] OTHER -> Outcome(mcp_method_not_found(msg_id), storage, nid)

\* POST /mcp/stream
mcp_stream_endpoint(body, storage, nid) ==
  IF body.kind = "unparseable"
  THEN Outcome(mcp_stream_except(body, "JSONDecodeError", "internal_error"), storage, nid)
  ELSE IF ~IsDict(body.value)
  THEN Outcome(mcp_stream_except(body, "AttributeError", "internal_error"), storage, nid)
  ELSE mcp_stream_dispatch(body, storage, nid)

\* ------------------------------------------------ src/main.py: REST surface
\* POST /api/todos.  The whole body runs under "except Exception", which turns
\* every exception, the 400 it raised itself included, into a 400.
create_todo_api(todo_data, storage, nid) ==
  LET raw == dict_get(todo_data, "title", PyStr(<<>>))
      description == dict_get(todo_data, "description", PyStr(<<>>))
      given == dict_get(todo_data, "priority", PyStr("medium"))
      priority == IF given \notin Priorities THEN PyStr("medium") ELSE given
  IN IF raw.ty # "str"
     THEN Outcome(RestResponse(400, "bad_request", "AttributeError", PyNone), storage, nid)
     ELSE IF strip(raw.s) = <<>>
     THEN Outcome(RestResponse(400, "title_required", "HTTPException", PyNone), storage, nid)
     ELSE IF ~TodoFieldsValid(PyStr(strip(raw.s)), description, priority)
     THEN Outcome(RestResponse(400, "bad_request", "ValidationError", PyNone), storage, nid)
     ELSE LET id == AllocateId(storage, nid)
              todo == Todo(id, PyStr(strip(raw.s)), description, priority, PyBool(FALSE))
          IN Outcome(RestResponse(200, "created", "", todo),
                     (id :> todo) @@ storage, NextIdAfterCreate(nid))

\* PUT /api/todos/{todo_id}
update_todo_api(todo_id, todo_data, storage, nid) ==
  IF todo_id \notin DOMAIN storage
  THEN Outcome(RestResponse(404, "not_found", "HTTPException", PyNone), storage, nid)
  ELSE IF "title" \in DOMAIN todo_data /\ todo_data.title.ty # "str"
  THEN Outcome(Escaped("AttributeError"), storage, nid)
  ELSE IF "title" \in DOMAIN todo_data /\ strip(todo_data.title.s) = <<>>
  THEN Outcome(RestResponse(400, "title_required", "HTTPException", PyNone), storage, nid)
  ELSE LET old == storage[todo_id]
           todo == [old EXCEPT
             !.title = IF "title" \in DOMAIN todo_data
                       THEN PyStr(strip(todo_data.title.s)) ELSE @,
             !.description = IF "description" \in DOMAIN todo_data
                             THEN todo_data.description ELSE @,
             !.priority = IF "priority" \in DOMAIN todo_data /\ todo_data.priority \in Priorities
                          THEN todo_data.priority ELSE @,
             !.completed = IF "completed" \in DOMAIN todo_data
                           THEN PyBool(Truthy(todo_data.completed)) ELSE @]
       IN Outcome(RestResponse(200, "updated", "", todo),
                  [storage EXCEPT ![todo_id] = todo], nid)

\* PATCH /api/todos/{todo_id}/complete
toggle_todo_complete(todo_id, completion_data, storage, nid) ==
  IF todo_id \notin DOMAIN storage
  THEN Outcome(RestResponse(404, "not_found", "HTTPException", PyNone), storage, nid)
  ELSE LET old == storage[todo_id]
           dflt == PyBool(~Truthy(old.completed))
           todo == [old EXCEPT
                      !.completed = PyBool(Truthy(dict_get(completion_data, "completed", dflt)))]
       IN Outcome(RestResponse(200, "completed", "", todo),
                  [storage EXCEPT ![todo_id] = todo], nid)

\* DELETE /api/todos/{todo_id}
delete_todo_api(todo_id, storage, nid) ==
  IF todo_id \notin DOMAIN storage
  THEN Outcome(RestResponse(404, "not_found", "HTTPException", PyNone), storage, nid)
  ELSE Outcome(RestResponse(200, "deleted", "", storage[todo_id]),
               storage_pop(storage, todo_id), nid)

\* GET /api/todos
get_todos(completed, storage, nid) ==
  LET all == storage_values(storage)
  IN Outcome(RestResponse(200, "listed", "",
                          IF completed # PyNone THEN FilterCompleted(all, completed) ELSE all),
             storage, nid)

\* GET /health: the status, with todos_count = len(todos_storage)
health(storage, nid) ==
  Outcome(RestResponse(200, "healthy", "", PyInt(Cardinality(DOMAIN storage))), storage, nid)

\* GET /tools: the descriptors of MCPServer.tools
list_tools(storage, nid) ==
  Outcome(RestResponse(200, "tools", "", handle_tools_list), storage, nid)

\* GET /mcp/stream: a fixed description of the endpoint
mcp_stream_info(storage, nid) == Outcome(RestResponse(200, "info", "", PyNone), storage, nid)

\* The REST routes of src/main.py
rest_endpoint(r, storage, nid) ==
  CASE r.op = "create" -> create_todo_api(r.body, storage, nid)
    [] r.op = "update" -> update_todo_api(r.todo_id, r.body, storage, nid)
    [] r.op = "complete" -> toggle_todo_complete(r.todo_id, r.body, storage, nid)
    [] r.op = "delete" -> delete_todo_api(r.todo_id, storage, nid)
    [] r.op = "list" -> get_todos(dict_get(r.body, "completed", PyNone), storage, nid)
    [] r.op = "health" -> health(storage, nid)
    [] r.op = "tools" -> list_tools(storage, nid)
    [] r.op = "stream_info" -> mcp_stream_info(storage, nid)


\* ------------------------------------- src/src/todo_service.py: TodoService
\* The database gives a new row its id (models.py: id is the integer primary
\* key; the default database, app.py's sqlite:///todos.db, takes the largest
\* id in the table plus one).
db_new_id(rows) ==
  IF DOMAIN rows = {} THEN 1
  ELSE 1 + (CHOOSE i \in DOMAIN rows : \A j \in DOMAIN rows : j <= i)

\* datetime.utcnow, the default of created_at and updated_at and the onupdate
\* of updated_at
utcnow == clock

\* models.py: a new row of table todos, as the INSERT stores it
TodoRow(id, title, description, priority, completed) ==
  [id |-> id, title |-> title, description |-> description,
   priority |-> priority, completed |-> completed,
   created_at |-> utcnow, updated_at |-> utcnow]

\* Todo.query.get(todo_id): the row, or None
query_get(todo_id, rows) ==
  IF todo_id.ty = "int" /\ todo_id.n \in DOMAIN rows
  THEN [found |-> TRUE, row |-> rows[todo_id.n]]
  ELSE NoRow

\* What a service call hands back: success with the todo, or an error
ServiceResult(success, text, data, rows) ==
  [success |-> success, text |-> text, data |-> data, rows |-> rows]

\* "description.strip() if description else None"
strip_or_none(description) ==
  IF Truthy(description) THEN PyStr(strip(description.s)) ELSE PyNone

\* A create that stores the default priority whatever priority it was given
service_create_todo_medium(title, description, priority, rows) ==
  IF ~Truthy(title) \/ strip(title.s) = <<>>
  THEN ServiceResult(FALSE, "title_required", PyNone, rows)
  ELSE LET id == db_new_id(rows)
           todo == TodoRow(id, PyStr(strip(title.s)), strip_or_none(description),
                           PyStr("medium"), PyBool(FALSE))
       IN ServiceResult(TRUE, "created", todo, (id :> todo) @@ rows)

\* TodoService.create_todo
service_create_todo(title, description, priority, rows) ==
  IF ~Truthy(title) \/ strip(title.s) = <<>>
  THEN ServiceResult(FALSE, "title_required", PyNone, rows)
  ELSE LET prio == IF priority \notin Priorities THEN PyStr("medium") ELSE priority
           id == db_new_id(rows)
           todo == TodoRow(id, PyStr(strip(title.s)), strip_or_none(description), prio,
                           PyBool(FALSE))
       IN ServiceResult(TRUE, "created", todo, (id :> todo) @@ rows)

\* Todo.query.order_by(Todo.created_at.desc()): a new row's id exceeds every id
\* in the table, so among the rows present a later creation has a larger id.
RECURSIVE RowsDescending(_, _)
RowsDescending(rows, ids) ==
  IF ids = {} THEN <<>>
  ELSE LET m == CHOOSE i \in ids : \A j \in ids : j <= i
       IN <<rows[m]>> \o RowsDescending(rows, ids \ {m})

\* TodoService.get_todos
service_get_todos(filter_completed, rows) ==
  LET all == RowsDescending(rows, DOMAIN rows)
  IN ServiceResult(TRUE, "listed",
                   IF filter_completed # PyNone THEN FilterCompleted(all, filter_completed)
                   ELSE all,
                   rows)

\* TodoService.update_todo, after the row was loaded: the title check
update_title_rejected(title) == title # PyNone /\ strip(title.s) = <<>>

\* TodoService.update_todo, after the row was loaded: the attribute assignments
\* made on the loaded object
update_assign(loaded, title, description, priority, completed) ==
  [loaded EXCEPT
     !.title = IF title # PyNone THEN PyStr(strip(title.s)) ELSE @,
     !.description = IF description # PyNone THEN strip_or_none(description) ELSE @,
     !.priority = IF priority # PyNone /\ priority \in Priorities THEN priority ELSE @,
     !.completed = IF completed # PyNone THEN completed ELSE @]

TodoColumns == {"title", "description", "priority", "completed"}

\* db.session.commit() after attribute assignments: the session flushes an
\* UPDATE of the columns whose assigned value differs from the loaded one,
\* and of no other column.
changed_columns(loaded, assigned) == {c \in TodoColumns : assigned[c] # loaded[c]}

\* A commit that sends the UPDATE, and with it the new updated_at, even when no
\* column changed
db_update_touching(row, assigned, columns) ==
  [c \in DOMAIN row |-> IF c \in columns THEN assigned[c]
                        ELSE IF c = "updated_at" THEN utcnow
                        ELSE row[c]]

\* The UPDATE ... WHERE id = ? as the database applies it to the current row.
\* With no changed column the session has nothing to flush and sends no
\* UPDATE; an UPDATE that is sent also sets updated_at (onupdate=utcnow).
db_update(row, assigned, columns) ==
  IF columns = {} THEN row
  ELSE [c \in DOMAIN row |-> IF c \in columns THEN assigned[c]
                             ELSE IF c = "updated_at" THEN utcnow
                             ELSE row[c]]

\* TodoService.update_todo from the assignments to the return.  The UPDATE of
\* a row that is gone matches no row and the commit raises; the returned
\* todo.to_dict() reads the row back after the commit.
service_update_commit(id, loaded, title, description, priority, completed, rows) ==
  IF update_title_rejected(title)
  THEN ServiceResult(FALSE, "title_empty", PyNone, rows)
  ELSE LET assigned == update_assign(loaded, title, description, priority, completed)
           columns == changed_columns(loaded, assigned)
       IN IF id \notin DOMAIN rows
          THEN ServiceResult(FALSE, "db_error", PyNone, rows)
          ELSE LET row == db_update(rows[id], assigned, columns)
               IN ServiceResult(TRUE, "updated", row, [rows EXCEPT ![id] = row])

\* TodoService.delete_todo from db.session.delete(todo) to the return
service_delete_commit(id, rows) ==
  ServiceResult(TRUE, "deleted", PyNone, [i \in DOMAIN rows \ {id} |-> rows[i]])


\* ------------------------------------------- src/src/app.py: mcp_endpoint
\* "not request_data" for the None, dict or list that request.get_json() gives
json_falsy(value) ==
  IF IsDict(value) THEN DOMAIN value = {}
  ELSE IF value.ty = "list" THEN value.items = <<>>
  ELSE ~Truthy(value)

\* "'method' not in request_data" for a dict or a list
method_missing(value) ==
  IF IsDict(value) THEN "method" \notin DOMAIN value
  ELSE \A i \in 1 .. Len(value.items) : value.items[i] # PyStr("method")

\* The except clause of mcp_endpoint: the id is request_data.get('id') when
\* request_data is bound and truthy.  A list has no get: the AttributeError
\* leaves the handler.
flask_mcp_except(body, exc) ==
  IF body.kind = "unparseable" \/ json_falsy(body.value)
  THEN RpcError(500, TRUE, PyNone, -32603, "internal_error", exc)
  ELSE IF ~IsDict(body.value) THEN Escaped("AttributeError")
  ELSE RpcError(500, TRUE, dict_get(body.value, "id", PyNone), -32603, "internal_error", exc)

\* The tools/list branch of mcp_endpoint: the names of the descriptors it spells out
flask_tools_list ==
  {"create_todo", "list_todos", "update_todo", "delete_todo", "mark_todo_complete"}

\* How far mcp_endpoint gets before it touches the database: "answer" with the
\* response when it needs no database access, else the tool to run
flask_route(body) ==
  IF body.kind = "unparseable"
  THEN [to |-> "answer", resp |-> flask_mcp_except(body, "BadRequest")]
  ELSE IF json_falsy(body.value) \/ method_missing(body.value)
  THEN [to |-> "answer", resp |-> RpcError(400, FALSE, PyNone, -32600, "invalid_request", "")]
  ELSE IF ~IsDict(body.value)
  THEN [to |-> "answer", resp |-> flask_mcp_except(body, "TypeError")]
  ELSE LET request_data == body.value
           method == request_data.method
           request_id == dict_get(request_data, "id", PyNone)
           params == dict_get(request_data, "params", EmptyDict)
       IN CASE method = PyStr("initialize") ->
                 [to |-> "answer", resp |-> RpcResult(request_id, "initialized", PyNone)]
            [] method = PyStr("notifications/initialized") ->
                 [to |-> "answer",
                  resp |-> Response("none", 204, FALSE, PyNone, 0, "empty", "", PyNone)]
            [] method = PyStr("tools/list") ->
                 [to |-> "answer", resp |-> RpcResult(request_id, "tools", flask_tools_list)]
            [] method = PyStr("tools/call") ->
                 IF ~IsDict(params)
                 THEN [to |-> "answer", resp |-> flask_mcp_except(body, "AttributeError")]
                 ELSE LET tool_name == dict_get(params, "name", PyNone)
                          arguments == dict_get(params, "arguments", EmptyDict)
                      IN IF ToolMissing(tool_name)
                         THEN [to |-> "answer",
                               resp |-> RpcError(400, TRUE, request_id, -32601,
                                                 "unknown_tool", "")]
                         ELSE IF ~IsDict(arguments)
                         THEN [to |-> "answer",
                               resp |-> flask_mcp_except(body, "AttributeError")]
                         ELSE [to |-> tool_name.s, id |-> request_id, arguments |-> arguments]
            [] OTHER ->
                 [to |-> "answer",
                  resp |-> RpcError(400, TRUE, request_id, -32601, "method_not_found", "")]

\* mcp_endpoint up to and including the first database access of the tool it
\* runs.  create_todo (one INSERT) and list_todos (one SELECT) end there; the
\* other tools have loaded their row and go on to commit.
flask_mcp_start(body, rows) ==
  LET route == flask_route(body)
      answer(res) == [done |-> TRUE, loaded |-> NoRow, rows |-> res.rows,
                      resp |-> RpcResult(route.id, res.text, res.data)]
  IN IF route.to = "answer"
     THEN [done |-> TRUE, loaded |-> NoRow, rows |-> rows, resp |-> route.resp]
     ELSE IF route.to = "create_todo"
     THEN answer(service_create_todo(dict_get(route.arguments, "title", PyNone),
                                     dict_get(route.arguments, "description", PyStr(<<>>)),
                                     dict_get(route.arguments, "priority", PyStr("medium")),
                                     rows))
     ELSE IF route.to = "list_todos"
     THEN answer(service_get_todos(dict_get(route.arguments, "filter_completed", PyNone), rows))
     ELSE LET loaded == query_get(dict_get(route.arguments, "todo_id", PyNone), rows)
          IN IF ~loaded.found
             THEN answer(ServiceResult(FALSE, "not_found", PyNone, rows))
             ELSE [done |-> FALSE, loaded |-> loaded, rows |-> rows, resp |-> NoResp]

\* mcp_endpoint from the loaded row to the response
flask_mcp_commit(body, loaded, rows) ==
  LET route == flask_route(body)
      a == route.arguments
      id == loaded.row.id
      res == CASE route.to = "update_todo" ->
                    service_update_commit(id, loaded.row, dict_get(a, "title", PyNone),
                                          dict_get(a, "description", PyNone),
                                          dict_get(a, "priority", PyNone),
                                          dict_get(a, "completed", PyNone), rows)
               [] route.to = "mark_todo_complete" ->
                    service_update_commit(id, loaded.row, PyNone, PyNone, PyNone,
                                          dict_get(a, "completed", PyBool(TRUE)), rows)
               [] route.to = "delete_todo" -> service_delete_commit(id, rows)
  IN Outcome(RpcResult(route.id, res.text, res.data), res.rows, 0)


\* ------------------------------------------- src/src/app.py: REST routes
\* The response of a route that hands back a service result: the status given
\* on success, 400 on failure
flask_rest_answer(ok_http, res) ==
  [done |-> TRUE, loaded |-> NoRow, rows |-> res.rows,
   resp |-> RestResponse(IF res.success THEN ok_http ELSE 400, res.text, "", res.data)]

\* GET /api/todos
flask_get_todos(args, rows) ==
  flask_rest_answer(200, service_get_todos(dict_get(args, "completed", PyNone), rows))

\* POST /api/todos
flask_create_todo(data, rows) ==
  IF json_falsy(data)
  THEN flask_rest_answer(400, ServiceResult(FALSE, "no_data", PyNone, rows))
  ELSE flask_rest_answer(201, service_create_todo(dict_get(data, "title", PyNone),
                                                  dict_get(data, "description", PyNone),
                                                  dict_get(data, "priority", PyStr("medium")),
                                                  rows))

\* GET /api/todos/<todo_id>
flask_get_todo(todo_id, rows) ==
  LET loaded == query_get(PyInt(todo_id), rows)
  IN [done |-> TRUE, loaded |-> NoRow, rows |-> rows,
      resp |-> IF loaded.found THEN RestResponse(200, "found", "", loaded.row)
               ELSE RestResponse(404, "not_found", "", PyNone)]

\* GET /health: a fixed body
health_check(rows) ==
  [done |-> TRUE, loaded |-> NoRow, rows |-> rows,
   resp |-> RestResponse(200, "healthy", "", PyNone)]

\* PUT, DELETE /api/todos/<todo_id> and PATCH /api/todos/<todo_id>/complete, up
\* to the service's Todo.query.get
flask_rest_load(r, rows) ==
  IF r.op = "update" /\ json_falsy(r.body)
  THEN flask_rest_answer(400, ServiceResult(FALSE, "no_data", PyNone, rows))
  ELSE LET loaded == query_get(PyInt(r.todo_id), rows)
       IN IF ~loaded.found
          THEN flask_rest_answer(200, ServiceResult(FALSE, "not_found", PyNone, rows))
          ELSE [done |-> FALSE, loaded |-> loaded, rows |-> rows, resp |-> NoResp]

\* The REST routes of src/src/app.py, up to and including the first database access
flask_rest_start(r, rows) ==
  CASE r.op = "list" -> flask_get_todos(r.body, rows)
    [] r.op = "create" -> flask_create_todo(r.body, rows)
    [] r.op = "get" -> flask_get_todo(r.todo_id, rows)
    [] r.op = "health" -> health_check(rows)
    [] OTHER -> flask_rest_load(r, rows)

\* update_todo, mark_complete and delete_todo from the loaded row to the response
flask_rest_commit(r, loaded, rows) ==
  LET id == loaded.row.id
      res == CASE r.op = "update" ->
                    service_update_commit(id, loaded.row, dict_get(r.body, "title", PyNone),
                                          dict_get(r.body, "description", PyNone),
                                          dict_get(r.body, "priority", PyNone),
                                          dict_get(r.body, "completed", PyNone), rows)
               [] r.op = "complete" ->
                    service_update_commit(id, loaded.row, PyNone, PyNone, PyNone,
                                          dict_get(r.body, "completed", PyBool(TRUE)), rows)
               [] r.op = "delete" -> service_delete_commit(id, rows)
  IN Outcome(flask_rest_answer(200, res).resp, res.rows, 0)


\* ----------------------------------------------------------------- requests
RequestId == PyInt(7)
TargetIds == (1 .. MaxTodos) \cup {999}

A == PyStr(<<"a">>)
B == PyStr(<<"b">>)
PaddedB == PyStr(<<" ", "b">>)
Blank == PyStr(<<" ">>)
Empty == PyStr(<<>>)

Rpc(message) == [api |-> "rpc", body |-> Json(message)]
Call(method, params) == Rpc([id |-> RequestId, method |-> PyStr(method), params |-> params])
ToolCall(name, arguments) == Call("tools/call", [name |-> PyStr(name), arguments |-> arguments])
Rest(op, todo_id, body) == [api |-> "rest", op |-> op, todo_id |-> todo_id, body |-> body]

\* Arguments of a create: the request bodies the two surfaces share
CreateArgs ==
  { EmptyDict,
    [title |-> Empty],
    [title |-> Blank],
    [title |-> PyNone],
    [title |-> A],
    [title |-> A, priority |-> PyNone],
    [title |-> PaddedB, description |-> PyStr(<<"d">>), priority |-> PyStr("urgent")] }

\* Fields of an update, without the id
UpdateFields ==
  { EmptyDict,
    [title |-> B, description |-> PyNone, priority |-> PyStr("low")],
    [title |-> Empty, completed |-> PyBool(TRUE)] }

WithId(fields, id) == [k \in DOMAIN fields \cup {"todo_id"} |->
                         IF k = "todo_id" THEN PyInt(id) ELSE fields[k]]

\* Bodies that are not a well-formed JSON-RPC request
MalformedRequests ==
  { [api |-> "rpc", body |-> Unparseable],
    Rpc(PyList(<<>>)),
    Rpc(PyList(<<PyStr("method")>>)),
    Rpc([id |-> RequestId]) }

ProtocolRequests ==
  { Call("initialize", EmptyDict),
    Rpc([method |-> PyStr("tools/list")]),
    Call("resources/list", EmptyDict),
    Call("resources/read", [uri |-> PyStr(TodosUri)]),
    Call("resources/read", [uri |-> PyStr("mcp://server/other")]),
    Call("foo/bar", EmptyDict),
    Rpc([method |-> PyStr("notifications/initialized")]),
    Call("tools/call", PyNone),
    Call("tools/call", [arguments |-> EmptyDict]),
    ToolCall("bogus_tool", EmptyDict) }

ToolRequests ==
  {ToolCall("create_todo", a) : a \in CreateArgs}
    \cup {ToolCall("update_todo", WithId(f, i)) : f \in UpdateFields, i \in TargetIds}
    \cup {ToolCall("update_todo", EmptyDict), ToolCall("delete_todo", EmptyDict),
          ToolCall("mark_todo_complete", EmptyDict)}
    \cup {ToolCall("delete_todo", WithId(EmptyDict, i)) : i \in TargetIds}
    \cup {ToolCall("mark_todo_complete", WithId(f, i)) :
            f \in {EmptyDict, [completed |-> PyBool(FALSE)]}, i \in TargetIds}
    \cup {ToolCall("list_todos", f) : f \in {EmptyDict, [filter_completed |-> PyBool(TRUE)]}}

RestRequests ==
  {Rest("create", 0, a) : a \in CreateArgs}
    \cup {Rest("update", i, f) : i \in TargetIds, f \in UpdateFields}
    \cup {Rest("complete", i, f) : i \in TargetIds, f \in {EmptyDict, [completed |-> PyBool(FALSE)]}}
    \cup {Rest("delete", i, EmptyDict) : i \in TargetIds}
    \cup {Rest("list", 0, f) : f \in {EmptyDict, [completed |-> PyBool(TRUE)]}}

RpcRequests == MalformedRequests \cup ProtocolRequests \cup ToolRequests

\* main.py also has GET /health, GET /tools and GET /mcp/stream
MainRestRequests ==
  RestRequests \cup {Rest(op, 0, EmptyDict) : op \in {"health", "tools", "stream_info"}}

\* app.py also has GET /api/todos/<todo_id> and GET /health
FlaskRestRequests ==
  RestRequests \cup {Rest("get", i, EmptyDict) : i \in TargetIds}
    \cup {Rest("health", 0, EmptyDict)}

\* The requests a client can send to the running application
Requests ==
  IF server = "fastapi" THEN RpcRequests \cup MainRestRequests
  ELSE RpcRequests \cup FlaskRestRequests

\* The two conflicting updates of one task, and the create they follow
ConcCreate == [title |-> A, priority |-> PyStr("low")]
UpdateA == [todo_id |-> PyInt(1), title |-> A, priority |-> PyStr("high")]
UpdateB == [todo_id |-> PyInt(1), title |-> B, priority |-> PyStr("low")]

ConcRpcRequests ==
  {ToolCall("create_todo", ConcCreate), ToolCall("update_todo", UpdateA),
   ToolCall("update_todo", UpdateB)}

ConcRestRequests ==
  {Rest("create", 0, ConcCreate),
   Rest("update", 1, [title |-> A, priority |-> PyStr("high")]),
   Rest("update", 1, [title |-> B, priority |-> PyStr("low")])}

ConcRequests ==
  IF server = "fastapi" THEN ConcRpcRequests \cup ConcRestRequests ELSE ConcRpcRequests

\* A request that asks for a create
IsCreate(r) ==
  IF r.api = "rest" THEN r.op = "create"
  ELSE /\ r.api = "rpc"
       /\ r.body.kind = "json"
       /\ IsDict(r.body.value)
       /\ dict_get(r.body.value, "method", PyNone) = PyStr("tools/call")
       /\ IsDict(dict_get(r.body.value, "params", EmptyDict))
       /\ dict_get(dict_get(r.body.value, "params", EmptyDict), "name", PyNone)
            = PyStr("create_todo")

\* -------------------------------------------------------------- the machine
Store == IF server = "fastapi" THEN todos_storage ELSE todos

Init ==
  /\ server \in {"fastapi", "flask"}
  /\ todos_storage = EmptyDict
  /\ next_id = 1
  /\ todos = EmptyDict
  /\ pc = [h \in Handlers |-> "idle"]
  /\ req = [h \in Handlers |-> NoReq]
  /\ resp = [h \in Handlers |-> NoResp]
  /\ sess = [h \in Handlers |-> NoRow]
  /\ createdIds = <<>>
  /\ clock = 0

\* Creates in flight
PendingCreates == {h \in Handlers : pc[h] \in {"recv", "loaded"} /\ IsCreate(req[h])}

\* A request arrives and a handler is started for it
Accept(h, r) ==
  /\ pc[h] = "idle"
  /\ IsCreate(r) => Len(createdIds) + Cardinality(PendingCreates) < MaxTodos
  /\ pc' = [pc EXCEPT ![h] = "recv"]
  /\ req' = [req EXCEPT ![h] = r]
  /\ UNCHANGED <<server, todos_storage, next_id, todos, resp, sess, createdIds, clock>>

Created(response) == IF response.text = "created" THEN <<response.data.id>> ELSE <<>>

\* src/main.py: the handler runs on the event loop; from the parsed body to the
\* returned response it awaits nothing that suspends it, so it runs as one step.
HandleMain(h) ==
  /\ server = "fastapi"
  /\ pc[h] = "recv"
  /\ LET out == IF req[h].api = "rpc"
                THEN mcp_stream_endpoint(req[h].body, todos_storage, next_id)
                ELSE rest_endpoint(req[h], todos_storage, next_id)
     IN /\ todos_storage' = out.storage
        /\ next_id' = out.nid
        /\ resp' = [resp EXCEPT ![h] = out.resp]
        /\ createdIds' = createdIds \o Created(out.resp)
  /\ pc' = [pc EXCEPT ![h] = "done"]
  /\ UNCHANGED <<server, todos, req, sess, clock>>

\* src/src/app.py: a request thread runs its route up to and including its
\* first statement on the database
FlaskStart(h) ==
  /\ server = "flask"
  /\ pc[h] = "recv"
  /\ LET out == IF req[h].api = "rpc" THEN flask_mcp_start(req[h].body, todos)
                ELSE flask_rest_start(req[h], todos)
     IN /\ todos' = out.rows
        /\ sess' = [sess EXCEPT ![h] = out.loaded]
        /\ resp' = [resp EXCEPT ![h] = out.resp]
        /\ pc' = [pc EXCEPT ![h] = IF out.done THEN "done" ELSE "loaded"]
        /\ createdIds' = createdIds \o (IF out.done THEN Created(out.resp) ELSE <<>>)
  /\ UNCHANGED <<server, todos_storage, next_id, req, clock>>

\* src/src/app.py: the thread goes on from the loaded row to the commit and the response
FlaskCommit(h) ==
  /\ server = "flask"
  /\ pc[h] = "loaded"
  /\ LET out == IF req[h].api = "rpc" THEN flask_mcp_commit(req[h].body, sess[h], todos)
                ELSE flask_rest_commit(req[h], sess[h], todos)
     IN /\ todos' = out.storage
        /\ resp' = [resp EXCEPT ![h] = out.resp]
  /\ pc' = [pc EXCEPT ![h] = "done"]
  /\ sess' = [sess EXCEPT ![h] = NoRow]
  /\ UNCHANGED <<server, todos_storage, next_id, req, createdIds, clock>>

\* The response is sent and the handler ends
Finish(h) ==
  /\ pc[h] = "done"
  /\ pc' = [pc EXCEPT ![h] = "idle"]
  /\ req' = [req EXCEPT ![h] = NoReq]
  /\ resp' = [resp EXCEPT ![h] = NoResp]
  /\ UNCHANGED <<server, todos_storage, next_id, todos, sess, createdIds, clock>>

\* One request at a time, over every request
Next ==
  \/ \E r \in Requests : Accept(1, r)
  \/ HandleMain(1)
  \/ FlaskStart(1)
  \/ FlaskCommit(1)
  \/ Finish(1)

Spec == Init /\ [][Next]_vars

\* Up to MaxConc requests in flight, over the creates and the two updates
NextConc ==
  \E h \in Handlers :
    \/ \E r \in ConcRequests : Accept(h, r)
    \/ HandleMain(h)
    \/ FlaskStart(h)
    \/ FlaskCommit(h)
    \/ Finish(h)

SpecConc == Init /\ [][NextConc]_vars

\* The clock moves on
Tick ==
  /\ clock < MaxClock
  /\ clock' = clock + 1
  /\ UNCHANGED <<server, todos_storage, next_id, todos, pc, req, resp, sess, createdIds>>

\* Requests that write and read back the fields of a todo
PaddedD == PyStr(<<" ", "d">>)

FieldCreates ==
  { [title |-> PaddedB, description |-> PaddedD, priority |-> PyStr("high")],
    [title |-> A, description |-> Empty, priority |-> PyStr("low")] }

FieldUpdates == { EmptyDict, [title |-> B] }

FieldRpcRequests ==
  {ToolCall("create_todo", a) : a \in FieldCreates}
    \cup {ToolCall("update_todo", WithId(u, i)) : u \in FieldUpdates, i \in 1 .. MaxTodos}
    \cup {ToolCall("mark_todo_complete", WithId([completed |-> PyBool(TRUE)], i)) :
            i \in 1 .. MaxTodos}

FieldRestRequests ==
  {Rest("create", 0, a) : a \in FieldCreates}
    \cup {Rest("update", i, u) : u \in FieldUpdates, i \in 1 .. MaxTodos}
    \cup {Rest("complete", i, [completed |-> PyBool(TRUE)]) : i \in 1 .. MaxTodos}

FieldRequests ==
  FieldRpcRequests \cup FieldRestRequests
    \cup (IF server = "flask" THEN {Rest("get", i, EmptyDict) : i \in 1 .. MaxTodos} ELSE {})

\* One request at a time over the requests on fields, while time passes
NextFields ==
  \/ \E r \in FieldRequests : Accept(1, r)
  \/ HandleMain(1)
  \/ FlaskStart(1)
  \/ FlaskCommit(1)
  \/ Finish(1)
  \/ Tick

SpecFields == Init /\ [][NextFields]_vars


\* ------------------------------------------------------------------- claims
\* What the claims read from a request
IsRpc(r) == r.api = "rpc"
IsObject(r) == IsRpc(r) /\ r.body.kind = "json" /\ IsDict(r.body.value)
MethodOf(r) == dict_get(r.body.value, "method", PyNone)
ParamsOf(r) == dict_get(r.body.value, "params", EmptyDict)
IsToolsCall(r) == IsObject(r) /\ MethodOf(r) = PyStr("tools/call")
NamesTool(r, name) ==
  /\ IsToolsCall(r)
  /\ IsDict(ParamsOf(r))
  /\ dict_get(ParamsOf(r), "name", PyNone) = PyStr(name)
  /\ IsDict(dict_get(ParamsOf(r), "arguments", EmptyDict))
ArgumentsOf(r) == dict_get(ParamsOf(r), "arguments", EmptyDict)

\* Handler h produces its response in this step
Responds(h) == pc[h] # "done" /\ pc'[h] = "done"

\* The request asks for an update with exactly the fields of u, through either surface
IsUpdateWith(r, u) ==
  \/ NamesTool(r, "update_todo") /\ ArgumentsOf(r) = u
  \/ /\ r.api = "rest"
     /\ r.op = "update"
     /\ PyInt(r.todo_id) = u.todo_id
     /\ r.body = [k \in DOMAIN u \ {"todo_id"} |-> u[k]]

\* C1: N creates handled concurrently against an initially empty store leave
\* exactly N tasks whose ids are exactly 1..N: the k-th create to succeed got
\* id k, no id was given twice, none was skipped, and every created task is in
\* the store (the requests of SpecConc delete nothing).
C1_ConcurrentCreatesGapless ==
  /\ \A i \in 1 .. Len(createdIds) : createdIds[i] = i
  /\ DOMAIN Store = 1 .. Len(createdIds)
  /\ \A i \in DOMAIN Store : Store[i].id = i
  /\ server = "fastapi" => next_id = Len(createdIds) + 1

\* Two creates in flight at once on the FastAPI application, one through
\* tools/call and one through POST /api/todos, both answered
C1_Witness ==
  /\ server = "fastapi"
  /\ pc[1] = "done" /\ pc[2] = "done"
  /\ NamesTool(req[1], "create_todo") /\ resp[1].text = "created"
  /\ req[2].api = "rest" /\ req[2].op = "create" /\ resp[2].text = "created"
  /\ resp[1].data.id # resp[2].data.id
  /\ DOMAIN todos_storage = {1, 2}

\* C2: every successful create returns an id strictly greater than every id
\* the store assigned before, the ids of tasks deleted since included.
C2_IdsStrictlyIncreasing ==
  \A i, j \in 1 .. Len(createdIds) : i < j => createdIds[i] < createdIds[j]

\* C3: two concurrent updates of one task never interleave their field writes.
\* With update A = {title: a, priority: high} and update B = {title: b,
\* priority: low} both answered, the task holds what A wrote or what B wrote,
\* never the title of one with the priority of the other.
C3_UpdatesDoNotInterleave ==
  \A h1, h2 \in Handlers :
    ( /\ h1 # h2
      /\ pc[h1] = "done" /\ pc[h2] = "done"
      /\ IsUpdateWith(req[h1], UpdateA) /\ resp[h1].text = "updated"
      /\ IsUpdateWith(req[h2], UpdateB) /\ resp[h2].text = "updated" )
    => <<Store[1].title, Store[1].priority>>
         \in {<<UpdateA.title, UpdateA.priority>>, <<UpdateB.title, UpdateB.priority>>}


\* The id a response must echo: the request's id, or None when the body could
\* not be parsed or carries no id
ExpectedId(r) == IF IsObject(r) THEN dict_get(r.body.value, "id", PyNone) ELSE PyNone

\* C4: every response of the JSON-RPC POST endpoint carries an id field equal
\* to the request's id (None when the request has none or could not be parsed)
\* and exactly one of result and error.
C4_EnvelopeWellFormed ==
  \A h \in Handlers :
    (pc[h] = "done" /\ IsRpc(req[h])) =>
      /\ resp[h].kind \in {"result", "error"}
      /\ resp[h].has_id
      /\ resp[h].id = ExpectedId(req[h])

\* The request is a tools/call whose params name no tool of the manifest
CallsUnknownTool(r) ==
  /\ IsToolsCall(r)
  /\ IsDict(ParamsOf(r))
  /\ dict_get(ParamsOf(r), "name", PyNone) \notin {PyStr(n) : n \in ToolNames}

StoreUnchanged == todos_storage' = todos_storage /\ next_id' = next_id /\ todos' = todos

CallsKnownTool(r) == \E n \in ToolNames : NamesTool(r, n)

\* The texts that report a validation failure or a missing todo
DomainFailures == {"title_required", "title_empty", "validation", "not_found"}

\* C6: every domain failure of a tools/call (a validation failure, a todo that
\* is not found) is answered with a result whose content reports the failure,
\* never with an error.
C6_DomainFailuresAreSoft ==
  \A h \in Handlers :
    (pc[h] = "done" /\ CallsKnownTool(req[h]) /\ resp[h].text \in DomainFailures) =>
      resp[h].kind = "result"

\* C7: an exception raised while a parsed request body is dispatched is
\* answered with a JSON-RPC error of code -32603; none leaves the handler
\* without an envelope.
C7_ExceptionsAnswered ==
  \A h \in Handlers :
    (pc[h] = "done" /\ IsRpc(req[h]) /\ req[h].body.kind = "json" /\ resp[h].exc # "") =>
      (resp[h].kind = "error" /\ resp[h].code = -32603)

\* The body cannot be parsed, or is an object without a method field
Malformed(r) ==
  /\ IsRpc(r)
  /\ \/ r.body.kind = "unparseable"
     \/ IsObject(r) /\ "method" \notin DOMAIN r.body.value

\* C8: a malformed request (an unparseable body, a body without method) is
\* answered with a JSON-RPC error of code -32600, and the store is unchanged.
C8_MalformedIsInvalidRequest ==
  [][\A h \in Handlers :
       (Responds(h) /\ Malformed(req[h])) =>
         (resp'[h].kind = "error" /\ resp'[h].code = -32600 /\ StoreUnchanged)]_vars

SupportedMethods ==
  {"initialize", "tools/list", "tools/call", "resources/list", "resources/read"}

\* The request is an object whose method is a string outside SupportedMethods
CallsOtherMethod(r) ==
  /\ IsObject(r)
  /\ MethodOf(r).ty = "str"
  /\ MethodOf(r).s \notin SupportedMethods

\* C9 as stated: a request whose method is any string other than the five
\* supported ones is answered with a JSON-RPC error of code -32601 and no
\* result, and the store is unchanged.
C9_OtherMethodNotFound ==
  [][\A h \in Handlers :
       (Responds(h) /\ CallsOtherMethod(req[h])) =>
         (resp'[h].kind = "error" /\ resp'[h].code = -32601 /\ StoreUnchanged)]_vars

\* C9 as amended: the same, except that app.py's endpoint answers the method
\* notifications/initialized with an empty 204 response.
C9_OtherMethodNotFoundButNotification ==
  [][\A h \in Handlers :
       ( /\ Responds(h)
         /\ CallsOtherMethod(req[h])
         /\ ~(server = "flask" /\ MethodOf(req[h]) = PyStr("notifications/initialized")) )
       => (resp'[h].kind = "error" /\ resp'[h].code = -32601 /\ StoreUnchanged)]_vars

\* The method foo/bar was answered -32601 on a store that holds a task
C9_Witness ==
  /\ server = "fastapi"
  /\ pc[1] = "done"
  /\ IsObject(req[1])
  /\ MethodOf(req[1]) = PyStr("foo/bar")
  /\ resp[1].code = -32601
  /\ Store # EmptyDict

\* The request updates, completes or deletes a todo by id: the id it names
\* (None when tools/call names none)
TargetsTodo(r) ==
  \/ r.api = "rest" /\ r.op \in {"update", "complete", "delete"}
  \/ \E n \in {"update_todo", "mark_todo_complete", "delete_todo"} : NamesTool(r, n)

TargetOf(r) ==
  IF r.api = "rest" THEN PyInt(r.todo_id) ELSE dict_get(ArgumentsOf(r), "todo_id", PyNone)

IsKey(id, storage) == id.ty = "int" /\ id.n \in DOMAIN storage

PutWithoutData(r) ==
  server = "flask" /\ r.api = "rest" /\ r.op = "update" /\ json_falsy(r.body)

C11_PriorityAlwaysAllowed ==
  \A i \in DOMAIN Store : Store[i].priority \in Priorities

\* C12: in every reachable store state the title of every stored task is a
\* string that is non-empty after trimming whitespace.
C12_TitleNeverBlank ==
  \A i \in DOMAIN Store : Store[i].title.ty = "str" /\ strip(Store[i].title.s) # <<>>

\* The outcome texts of an operation that succeeded
Succeeded(text) == text \in {"created", "updated", "completed", "deleted"}

\* The operation's tool name on the tools/call surface
ToolOf(op) ==
  CASE op = "create" -> "create_todo"
    [] op = "update" -> "update_todo"
    [] op = "complete" -> "mark_todo_complete"
    [] op = "delete" -> "delete_todo"

\* One operation with the same arguments through main.py's REST route and
\* through main.py's tools/call, each applied to the current store: both
\* succeed or both fail, and both leave the same store and counter
SameThroughBothSurfaces(op, id, fields) ==
  LET rest == rest_endpoint(Rest(op, id, fields), todos_storage, next_id)
      arguments == IF op = "create" THEN fields ELSE WithId(fields, id)
      rpc == handle_tools_call([name |-> PyStr(ToolOf(op)), arguments |-> arguments],
                               todos_storage, next_id)
  IN /\ Succeeded(rest.resp.text) <=> (rpc.exc = "" /\ Succeeded(rpc.text))
     /\ rest.storage = rpc.storage
     /\ rest.nid = rpc.nid

\* C13: for every reachable store state and every create, update, complete or
\* delete with the same arguments, the REST route and tools/call give the same
\* success or failure outcome and the same resulting store.
C13_SurfacesEquivalent ==
  server = "fastapi" =>
    /\ \A a \in CreateArgs : SameThroughBothSurfaces("create", 0, a)
    /\ \A i \in TargetIds :
         /\ \A f \in UpdateFields : SameThroughBothSurfaces("update", i, f)
         /\ \A f \in {EmptyDict, [completed |-> PyBool(FALSE)]} :
              SameThroughBothSurfaces("complete", i, f)
         /\ SameThroughBothSurfaces("delete", i, EmptyDict)

\* The request is an update, through either surface; the fields it supplies
IsUpdate(r) == (r.api = "rest" /\ r.op = "update") \/ NamesTool(r, "update_todo")
UpdateArgsOf(r) == IF r.api = "rest" THEN r.body ELSE ArgumentsOf(r)

\* An explicit null, or an empty string in one of the two text fields
NullOrEmpty(f, v) == v = PyNone \/ (f \in {"title", "description"} /\ v = Empty)

\* C14: a successful update leaves every field whose key is absent from the
\* request as it was, and treats a key present with an explicit null or empty
\* value as supplied: the field holds a null or empty value afterwards.
C14_UpdateChangesExactlySuppliedFields ==
  [][\A h \in Handlers :
       (Responds(h) /\ IsUpdate(req[h]) /\ resp'[h].text = "updated") =>
         LET id == TargetOf(req[h]).n
             supplied == UpdateArgsOf(req[h])
         IN \A f \in TodoColumns :
              /\ f \notin DOMAIN supplied => Store'[id][f] = Store[id][f]
              /\ (f \in DOMAIN supplied /\ NullOrEmpty(f, supplied[f])) =>
                   NullOrEmpty(f, Store'[id][f])]_vars

\* The update supplies a title that is empty or whitespace only
SuppliesBlankTitle(r) ==
  /\ IsUpdate(r)
  /\ "title" \in DOMAIN UpdateArgsOf(r)
  /\ UpdateArgsOf(r).title.ty = "str"
  /\ strip(UpdateArgsOf(r).title.s) = <<>>

\* C15: an update of an existing task that supplies an empty or
\* whitespace-only title is answered with a validation failure and changes no
\* field of the task, whatever else it supplies.
C15_BlankTitleUpdateRejected ==
  [][\A h \in Handlers :
       (Responds(h) /\ SuppliesBlankTitle(req[h]) /\ IsKey(TargetOf(req[h]), Store)) =>
         (resp'[h].text \in {"title_empty", "title_required"} /\ StoreUnchanged)]_vars

\* The id the next successful create will receive
NextCreateId == IF server = "fastapi" THEN next_id ELSE db_new_id(todos)

\* C16: a create that is rejected adds no task to the store and leaves the id
\* counter where it was, so the next successful create receives the id it
\* would have received without the rejected request.
C16_RejectedCreateChangesNothing ==
  [][\A h \in Handlers :
       (Responds(h) /\ IsCreate(req[h]) /\ resp'[h].text # "created") =>
         (StoreUnchanged /\ NextCreateId' = NextCreateId)]_vars

\* A create without a usable title was rejected on a store that already holds a task
C16_Witness ==
  /\ pc[1] = "done"
  /\ IsCreate(req[1])
  /\ resp[1].text = "title_required"
  /\ DOMAIN Store = {1}
  /\ NextCreateId = 2

\* The request is a tools/list
IsToolsList(r) == IsObject(r) /\ MethodOf(r) = PyStr("tools/list")

\* C17: tools/list is answered with exactly the five descriptors create_todo,
\* list_todos, update_todo, delete_todo and mark_todo_complete in every
\* reachable state, whatever was created, updated, completed or deleted before.
C17_ToolsListFixed ==
  \A h \in Handlers :
    (pc[h] = "done" /\ IsToolsList(req[h])) =>
      /\ resp[h].kind = "result"
      /\ resp[h].data =
           {"create_todo", "list_todos", "update_todo", "delete_todo", "mark_todo_complete"}

\* tools/list answered after two creates and a delete
C17_Witness ==
  /\ pc[1] = "done"
  /\ IsToolsList(req[1])
  /\ resp[1].text = "tools"
  /\ createdIds = <<1, 2>>
  /\ DOMAIN Store = {2}

\* The REST request names a todo by id in its path
RestOnId(r) == r.api = "rest" /\ r.op \in {"get", "update", "delete", "complete"}

\* The texts of a validation failure on the REST surface
RestValidationFailures == {"title_required", "title_empty", "no_data"}

\* C18: on the REST surface a successful create is answered with status 201,
\* every operation on a missing id with status 404, and every validation
\* failure with status 400.
C18_RestStatusCodes ==
  [][\A h \in Handlers :
       (Responds(h) /\ req[h].api = "rest") =>
         /\ resp'[h].text = "created" => resp'[h].http = 201
         /\ (RestOnId(req[h]) /\ req[h].todo_id \notin DOMAIN Store) => resp'[h].http = 404
         /\ ( /\ resp'[h].text \in RestValidationFailures
              /\ ~(RestOnId(req[h]) /\ req[h].todo_id \notin DOMAIN Store) )
            => resp'[h].http = 400]_vars

\* The request marks a todo complete, through either surface, and supplies no
\* completed value
IsComplete(r) == (r.api = "rest" /\ r.op = "complete") \/ NamesTool(r, "mark_todo_complete")
CompleteArgsOf(r) == IF r.api = "rest" THEN r.body ELSE ArgumentsOf(r)
CompletesByDefault(r) == IsComplete(r) /\ "completed" \notin DOMAIN CompleteArgsOf(r)

\* C19 as stated: a mark-complete request on an existing task that supplies no
\* completed value sets completed to true, whatever it was before, through
\* tools/call mark_todo_complete and through the REST PATCH route.
C19_CompleteDefaultsToTrue ==
  [][\A h \in Handlers :
       (Responds(h) /\ CompletesByDefault(req[h]) /\ IsKey(TargetOf(req[h]), Store)) =>
         Store'[TargetOf(req[h]).n].completed = PyBool(TRUE)]_vars

\* C19 as amended: the same through tools/call mark_todo_complete on both
\* servers and through app.py's PATCH route; main.py's PATCH route
\* (toggle_todo_complete) sets completed to the negation of its previous value.
C19_CompleteDefaultsToTrueOrToggles ==
  [][\A h \in Handlers :
       (Responds(h) /\ CompletesByDefault(req[h]) /\ IsKey(TargetOf(req[h]), Store)) =>
         LET id == TargetOf(req[h]).n
         IN /\ resp'[h].text = "completed" \/ resp'[h].text = "updated"
            /\ Store'[id].completed =
                 IF server = "fastapi" /\ req[h].api = "rest"
                 THEN PyBool(~Truthy(Store[id].completed))
                 ELSE PyBool(TRUE)]_vars

\* main.py's PATCH route without a completed value answered with the task
\* not completed: the task was completed before
C19_Witness ==
  /\ server = "fastapi"
  /\ pc[1] = "done"
  /\ req[1].api = "rest"
  /\ CompletesByDefault(req[1])
  /\ resp[1].text = "completed"
  /\ resp[1].data.completed = PyBool(FALSE)

\* The request lists todos, through either surface
IsList(r) == (r.api = "rest" /\ r.op = "list") \/ NamesTool(r, "list_todos")

\* C20: the list operation returns the stored tasks most recently created
\* first: of any two returned tasks the one created later (within one store
\* the one with the larger id) comes earlier in the sequence.
C20_ListMostRecentFirst ==
  \A h \in Handlers :
    (pc[h] = "done" /\ IsList(req[h]) /\ resp[h].text = "listed") =>
      \A i, j \in 1 .. Len(resp[h].data) : i < j => resp[h].data[i].id > resp[h].data[j].id

\* ------------------------------------------------------------------- C21
IsDelete(r) == (r.api = "rest" /\ r.op = "delete") \/ NamesTool(r, "delete_todo")

IssuedIds == {createdIds[k] : k \in DOMAIN createdIds}

\* C21: a delete that reports success removes exactly its task, leaves every
\* other task as it was and hands the removed record back; an id that was
\* issued and is gone from the store stays gone, and every update, complete,
\* delete and get of it reports not found.
C21_DeleteRemovesForGood ==
  [][\A h \in Handlers :
       /\ (Responds(h) /\ IsDelete(req[h]) /\ resp'[h].text = "deleted") =>
            /\ IsKey(TargetOf(req[h]), Store)
            /\ Store' = storage_pop(Store, TargetOf(req[h]).n)
            /\ resp'[h].data = Store[TargetOf(req[h]).n]
       /\ \A i \in IssuedIds : i \notin DOMAIN Store => i \notin DOMAIN Store'
       /\ (/\ Responds(h)
           /\ TargetsTodo(req[h]) \/ (req[h].api = "rest" /\ req[h].op = "get")
           /\ TargetOf(req[h]).ty = "int"
           /\ TargetOf(req[h]).n \in IssuedIds \ DOMAIN Store) =>
            resp'[h].text = "not_found"]_vars

\* ------------------------------------------------------------------- C22
SuppliesNoField(r) == IsUpdate(r) /\ DOMAIN UpdateArgsOf(r) \subseteq {"todo_id"}

\* C22: an update of an existing task that supplies no field succeeds, leaves
\* title, description, priority, completed and created_at as they were, and
\* sets updated_at, where the row has it, to the time of the update.
C22_BareUpdateRefreshes ==
  [][\A h \in Handlers :
       (Responds(h) /\ SuppliesNoField(req[h]) /\ IsKey(TargetOf(req[h]), Store)) =>
         LET i == TargetOf(req[h]).n
         IN /\ resp'[h].text = "updated"
            /\ i \in DOMAIN Store'
            /\ \A c \in TodoColumns \cup {"created_at"} : Store'[i][c] = Store[i][c]
            /\ "updated_at" \in DOMAIN Store[i] => Store'[i].updated_at = clock]_vars

\* ------------------------------------------------------------------- C23
CreateArgsOf(r) == IF r.api = "rest" THEN r.body ELSE ArgumentsOf(r)

\* A create that reports success, with a title and, where it gives one, a
\* priority among low, medium and high
CreatedWithFields(h) ==
  /\ Responds(h)
  /\ IsCreate(req[h])
  /\ resp'[h].text = "created"
  /\ "title" \in DOMAIN CreateArgsOf(req[h])
  /\ "priority" \in DOMAIN CreateArgsOf(req[h]) => CreateArgsOf(req[h]).priority \in Priorities

\* GET /api/todos/<id> answers with the stored record
ReadsStoredRecord(h) ==
  (Responds(h) /\ req[h].api = "rest" /\ req[h].op = "get" /\ req[h].todo_id \in DOMAIN Store) =>
    resp'[h].text = "found" /\ resp'[h].data = Store[req[h].todo_id]

\* C23 as stated: after a successful create with title t, description d and
\* priority p among low, medium and high, the record stored under the returned
\* id, which is what a read by that id answers, has title t, description d,
\* priority p and completed false.
C23_RoundTrip ==
  [][\A h \in Handlers :
       /\ ReadsStoredRecord(h)
       /\ CreatedWithFields(h) =>
            LET a == CreateArgsOf(req[h])
                k == resp'[h].data.id
            IN /\ k \in DOMAIN Store'
               /\ Store'[k].title = a.title
               /\ "description" \in DOMAIN a => Store'[k].description = a.description
               /\ "priority" \in DOMAIN a => Store'[k].priority = a.priority
               /\ Store'[k].completed = PyBool(FALSE)]_vars

\* The title as a create stores it: main.py's create_todo tool stores it as
\* given, every other create path without its leading and trailing whitespace
StoredTitle(r, t) ==
  IF server = "fastapi" /\ r.api = "rpc" THEN t ELSE PyStr(strip(t.s))

\* The description as a create stores it: main.py stores it as given, app.py
\* without its leading and trailing whitespace, and null in place of an empty
\* or null one
StoredDescription(d) ==
  IF server = "fastapi" THEN d
  ELSE IF d = PyNone \/ d = Empty THEN PyNone
  ELSE PyStr(strip(d.s))

\* C23, amended: the stored record, which is what a read by the returned id
\* answers, has the title and the description as the create path stores them
\* (trimmed, except on main.py's create_todo tool), priority p and completed
\* false.
C23_RoundTripTrimmed ==
  [][\A h \in Handlers :
       /\ ReadsStoredRecord(h)
       /\ CreatedWithFields(h) =>
            LET a == CreateArgsOf(req[h])
                k == resp'[h].data.id
            IN /\ k \in DOMAIN Store'
               /\ Store'[k].title = StoredTitle(req[h], a.title)
               /\ "description" \in DOMAIN a =>
                    Store'[k].description = StoredDescription(a.description)
               /\ "priority" \in DOMAIN a => Store'[k].priority = a.priority
               /\ Store'[k].completed = PyBool(FALSE)]_vars

\* A create with a padded title, a padded description and priority high has
\* answered on app.py, and the stored record has the trimmed title and priority high
C23_Witness ==
  /\ server = "flask"
  /\ pc[1] = "done"
  /\ IsCreate(req[1])
  /\ resp[1].text = "created"
  /\ CreateArgsOf(req[1]).title = PaddedB
  /\ CreateArgsOf(req[1]).priority = PyStr("high")
  /\ resp[1].data.id \in DOMAIN Store
  /\ Store[resp[1].data.id].title = B
  /\ Store[resp[1].data.id].priority = PyStr("high")

\* ------------------------------------------------------------------- C24
CompletesExplicitly(r) ==
  /\ IsComplete(r)
  /\ "completed" \in DOMAIN CompleteArgsOf(r)
  /\ CompleteArgsOf(r).completed = PyBool(TRUE)

\* C24: mark_todo_complete(id, completed=true) on an existing task reports
\* success, leaves the task completed and every other task as it was; called
\* on a task that a previous call has left completed it reports success again
\* and leaves the store and the counter exactly as they were, so two calls in
\* a row leave the state one call leaves.
C24_CompleteIdempotent ==
  [][\A h \in Handlers :
       (Responds(h) /\ CompletesExplicitly(req[h]) /\ IsKey(TargetOf(req[h]), Store)) =>
         LET i == TargetOf(req[h]).n
         IN /\ Succeeded(resp'[h].text)
            /\ DOMAIN Store' = DOMAIN Store
            /\ Store'[i].completed = PyBool(TRUE)
            /\ \A j \in DOMAIN Store \ {i} : Store'[j] = Store[j]
            /\ Store[i].completed = PyBool(TRUE) => StoreUnchanged]_vars

\* The second call is under way: some time after the row was last written,
\* mark_todo_complete(id, completed=true) has loaded a row that is completed
C24_Witness ==
  /\ server = "flask"
  /\ pc[1] = "loaded"
  /\ CompletesExplicitly(req[1])
  /\ sess[1].found
  /\ sess[1].row.completed = PyBool(TRUE)
  /\ sess[1].row.updated_at < clock

\* ------------------------------------------------------------------- C25
IsResourcesRead(r) ==
  IsObject(r) /\ MethodOf(r) = PyStr("resources/read") /\ IsDict(ParamsOf(r))

\* C25: resources/read leaves the store and the counter unchanged; where
\* resources are served (POST /mcp/stream of src/main.py), a read of the uri
\* mcp://server/todos answers with the todos of the store as they are, and a
\* read of any other uri is answered with the error that carries the
\* handler's 404 "not found" and with no contents.
C25_ResourcesRead ==
  [][\A h \in Handlers :
       (Responds(h) /\ IsResourcesRead(req[h])) =>
         /\ StoreUnchanged
         /\ server = "fastapi" =>
              IF dict_get(ParamsOf(req[h]), "uri", PyNone) = PyStr(TodosUri)
              THEN /\ resp'[h].kind = "result"
                   /\ resp'[h].text = "contents"
                   /\ resp'[h].data = storage_values(Store)
              ELSE /\ resp'[h].kind = "error"
                   /\ resp'[h].text = "resource_not_found"
                   /\ resp'[h].exc = "HTTPException"
                   /\ resp'[h].data = PyNone]_vars

\* A read of another uri has been answered not found while the store holds a todo
C25_Witness ==
  /\ server = "fastapi"
  /\ pc[1] = "done"
  /\ IsResourcesRead(req[1])
  /\ dict_get(ParamsOf(req[1]), "uri", PyNone) # PyStr(TodosUri)
  /\ resp[1].text = "resource_not_found"
  /\ DOMAIN Store # {}

\* ------------------------------------------------------------------- C26
\* A JSON-RPC request of the protocol itself: every method but tools/call
IsProtocolRequest(r) == IsObject(r) /\ MethodOf(r) # PyStr("tools/call")

\* C26: the dispatcher keeps nothing from one request to the next.  A
\* protocol request (initialize, tools/list, resources/list, resources/read,
\* a notification, an unknown method) changes nothing a later request is
\* answered from: the store, the counter, the database session and the clock
\* are as they were, and when its handler ends its request and response are
\* gone.  The server is then in the state it was in before the request came,
\* so tools/list, tools/call and resources/read are answered the same whether
\* or not an initialize came first.
C26_ProtocolRequestsLeaveNoTrace ==
  [][\A h \in Handlers :
       /\ (Responds(h) /\ IsProtocolRequest(req[h])) =>
            /\ StoreUnchanged
            /\ UNCHANGED <<server, createdIds, clock>>
            /\ sess' = sess
            /\ sess[h] = NoRow
       /\ (pc[h] = "done" /\ pc'[h] = "idle") =>
            /\ req'[h] = NoReq
            /\ resp'[h] = NoResp
            /\ sess'[h] = NoRow
            /\ StoreUnchanged]_vars

\* An initialize has been answered while the store holds a todo
C26_Witness ==
  /\ pc[1] = "done"
  /\ IsObject(req[1])
  /\ MethodOf(req[1]) = PyStr("initialize")
  /\ resp[1].text = "initialized"
  /\ DOMAIN Store # {}

\* ------------------------------------------------------------------- C27
\* C27: in every reachable state of the in-memory store each key k of
\* todos_storage maps to a todo whose id is k, every key is a positive integer
\* below next_id, and no step makes next_id smaller.
C27_KeysBelowCounter ==
  /\ [](\A k \in DOMAIN todos_storage :
          /\ todos_storage[k].id = k
          /\ k \in Nat
          /\ 0 < k
          /\ k < next_id)
  /\ [][next_id' >= next_id]_vars

\* A todo was deleted and a later one is kept: the only key is 2, below the counter
C27_Witness ==
  /\ server = "fastapi"
  /\ DOMAIN todos_storage = {2}
  /\ todos_storage[2].id = 2
  /\ next_id = 3

\* ------------------------------------------------------------------- C28
\* The operations that only read: initialize, tools/list, resources/list,
\* resources/read, tools/call list_todos, and the GET routes
IsReadOnly(r) ==
  \/ r.api = "rest" /\ r.op \in {"list", "get", "health", "tools", "stream_info"}
  \/ /\ IsObject(r)
     /\ MethodOf(r) \in {PyStr("initialize"), PyStr("tools/list"), PyStr("resources/list"),
                         PyStr("resources/read")}
  \/ NamesTool(r, "list_todos")

\* C28: the read-only operations leave the store and the id counter as they
\* were, for every argument and every state of the store.
C28_ReadsLeaveStore ==
  [][\A h \in Handlers : (Responds(h) /\ IsReadOnly(req[h])) => StoreUnchanged]_vars

\* GET /health has been answered with the number of todos while the store holds two
C28_Witness ==
  /\ server = "fastapi"
  /\ pc[1] = "done"
  /\ req[1].api = "rest"
  /\ req[1].op = "health"
  /\ resp[1].text = "healthy"
  /\ resp[1].data = PyInt(2)
  /\ Cardinality(DOMAIN todos_storage) = 2

\* ------------------------------------------------------------------- C29
RpcErrorCodes == {-32600, -32601, -32603}

\* C29: a JSON-RPC request that is answered with an error object (code
\* -32600, -32601 or -32603) leaves the store and the id counter exactly as
\* they were before the request.
C29_RpcErrorsLeaveStore ==
  [][\A h \in Handlers :
       (/\ Responds(h)
        /\ IsRpc(req[h])
        /\ resp'[h].kind = "error"
        /\ resp'[h].code \in RpcErrorCodes) => StoreUnchanged]_vars

\* A create_todo whose Todo was rejected has been answered with the error
\* -32603 while the store holds a todo
C29_Witness ==
  /\ pc[1] = "done"
  /\ NamesTool(req[1], "create_todo")
  /\ resp[1].kind = "error"
  /\ resp[1].code = -32603
  /\ resp[1].exc = "ValidationError"
  /\ DOMAIN Store # {}

\* ------------------------------------------------------------------- C30
\* The tool names tools/list advertises on the server that runs
Advertised == IF server = "fastapi" THEN handle_tools_list ELSE flask_tools_list

\* What the branch of each tool can answer
BranchAnswers(name) ==
  CASE name = "create_todo" -> {"created", "title_required", "validation"}
    [] name = "list_todos" -> {"listed"}
    [] name = "update_todo" -> {"updated", "not_found", "title_empty", "db_error"}
    [] name = "delete_todo" -> {"deleted", "not_found", "db_error"}
    [] name = "mark_todo_complete" -> {"completed", "updated", "not_found", "db_error"}
    [] OTHER -> {}

\* A tools/call whose params and arguments are objects and whose name is a string
CallsByName(r) ==
  /\ IsToolsCall(r)
  /\ IsDict(ParamsOf(r))
  /\ dict_get(ParamsOf(r), "name", PyNone).ty = "str"
  /\ IsDict(ArgumentsOf(r))

\* C30: the names tools/list advertises are the names tools/call dispatches:
\* a call of an advertised tool is answered by that tool's own branch, a call
\* of any other name is turned away before any branch and changes nothing,
\* and the fall-through "Tool executed successfully" is never the answer.
C30_AdvertisedIsDispatched ==
  [][\A h \in Handlers :
       /\ Responds(h) => resp'[h].text # "executed"
       /\ (Responds(h) /\ CallsByName(req[h])) =>
            LET name == dict_get(ParamsOf(req[h]), "name", PyNone).s
            IN IF name \in Advertised
               THEN resp'[h].text \in BranchAnswers(name)
               ELSE /\ resp'[h].text \in {"tool_not_found", "unknown_tool"}
                    /\ StoreUnchanged]_vars

\* The advertised delete_todo has been called and its branch has deleted a todo
C30_Witness ==
  /\ pc[1] = "done"
  /\ CallsByName(req[1])
  /\ NamesTool(req[1], "delete_todo")
  /\ "delete_todo" \in Advertised
  /\ resp[1].text = "deleted"

====
